---- MODULE Spec2Model ----
(***************************************************************************)
(* Model of snark-verifier/src/loader/evm/util.rs: the MemoryChunk         *)
(* tracker, the field <-> U256 codec, the calldata encoder, the gas        *)
(* estimator, the whitespace tokenizer and the solc pipeline compile_yul.  *)
(*                                                                         *)
(* Each component has its own specification over its own group of          *)
(* variables; the other groups stay at their idle value.                   *)
(*                                                                         *)
(* Scaling: a representation is ReprLen bytes (32 in the source) and a     *)
(* usize is UsizeBits bits (64 on the usual target), so that words fit the *)
(* model checker's integers.  Bytes are 0..255 as in the source.           *)
(***************************************************************************)
EXTENDS Integers, Sequences, FiniteSets, TLC

VARIABLES
    chunk, lastOp, before, lastReset, sumExt,      \* MemoryChunk and its history
    field, trace,                                  \* codec: field modulus, values converted so far
    instances, proof, calldata,                    \* encode_calldata
    cost, gas,                                     \* estimate_gas
    bytes, scan, spc,                              \* split_by_ascii_whitespace
    pc, srcLeft, stdinBuf, stdinOpen,              \* compile_yul: parent side
    childPc, readFirst, outLeft, stdoutBuf,        \* compile_yul: solc side
    captured, result                               \* compile_yul: output and outcome

chunkVars    == <<chunk, lastOp, before, lastReset, sumExt>>
codecVars    == <<field, trace>>
calldataVars == <<instances, proof, calldata>>
gasVars      == <<cost, gas>>
splitVars    == <<bytes, scan, spc>>
compileVars  == <<pc, srcLeft, stdinBuf, stdinOpen, childPc, readFirst, outLeft,
                  stdoutBuf, captured, result>>
vars == <<chunkVars, codecVars, calldataVars, gasVars, splitVars, compileVars>>

\* What an action of one component leaves alone: the other components.
notChunk    == <<codecVars, calldataVars, gasVars, splitVars, compileVars>>
notCodec    == <<chunkVars, calldataVars, gasVars, splitVars, compileVars>>
notCalldata == <<chunkVars, codecVars, gasVars, splitVars, compileVars>>
notGas      == <<chunkVars, codecVars, calldataVars, splitVars, compileVars>>
notSplit    == <<chunkVars, codecVars, calldataVars, gasVars, compileVars>>
notCompile  == <<chunkVars, codecVars, calldataVars, gasVars, splitVars>>

(***************************************************************************)
(* Idle values of the groups a specification does not use.                 *)
(***************************************************************************)
ChunkIdle ==
    /\ chunk = [ptr |-> 0, len |-> 0]
    /\ lastOp = [op |-> "idle", arg |-> 0, ret |-> 0]
    /\ before = [ptr |-> 0, len |-> 0]
    /\ lastReset = 0
    /\ sumExt = 0

CodecIdle == field = 0 /\ trace = <<>>

CalldataIdle == instances = <<>> /\ proof = <<>> /\ calldata = [done |-> FALSE, out |-> <<>>]

GasIdle ==
    /\ cost = [num_commitment |-> 0, num_evaluation |-> 0, num_instance |-> 0,
               num_msm |-> 0, num_pairing |-> 0]
    /\ gas = [state |-> "idle", v |-> 0]

SplitIdle ==
    /\ bytes = <<>>
    /\ scan = [idx |-> 0, start |-> [some |-> FALSE, v |-> 0], split |-> <<>>]
    /\ spc = "idle"

CompileIdle ==
    /\ pc = "idle" /\ srcLeft = 0 /\ stdinBuf = 0 /\ stdinOpen = FALSE
    /\ childPc = "idle" /\ readFirst = 0 /\ outLeft = <<>> /\ stdoutBuf = <<>>
    /\ captured = <<>> /\ result = [state |-> "idle", out |-> <<>>, why |-> "none"]

(***************************************************************************)
(* MemoryChunk (util.rs lines 18-48).                                      *)
(***************************************************************************)
\* The largest address of the model: the stand-in for usize::MAX.  Calls that
\* would overflow it are outside the tracker's precondition and are not made.
MaxAddr == 200

\* Arguments of new, reset and extend.
ChunkArgs == {0, 10, 50, 100}

new(p) == [ptr |-> p, len |-> 0]

ptr(self) == self.ptr

len(self) == self.len

end(self) == self.ptr + self.len

reset(self, p) == [self EXCEPT !.ptr = p, !.len = 0]

extend_setlen(self, size) == [self EXCEPT !.len = size]

extend(self, size) == [self EXCEPT !.len = self.len + size]

ChunkInit ==
    \E p \in ChunkArgs :
        /\ chunk = new(p)
        /\ lastOp = [op |-> "new", arg |-> p, ret |-> 0]
        /\ before = new(p)
        /\ lastReset = p
        /\ sumExt = 0

Extend ==
    \E n \in ChunkArgs :
        /\ chunk.ptr + chunk.len + n <= MaxAddr
        /\ chunk' = extend(chunk, n)
        /\ lastOp' = [op |-> "extend", arg |-> n, ret |-> 0]
        /\ before' = chunk
        /\ sumExt' = sumExt + n
        /\ UNCHANGED <<lastReset, notChunk>>

Reset ==
    \E q \in ChunkArgs :
        /\ chunk' = reset(chunk, q)
        /\ lastOp' = [op |-> "reset", arg |-> q, ret |-> 0]
        /\ before' = chunk
        /\ lastReset' = q
        /\ sumExt' = 0
        /\ UNCHANGED notChunk

CallPtr ==
    /\ lastOp' = [op |-> "ptr", arg |-> 0, ret |-> ptr(chunk)]
    /\ before' = chunk
    /\ UNCHANGED <<chunk, lastReset, sumExt, notChunk>>

CallLen ==
    /\ lastOp' = [op |-> "len", arg |-> 0, ret |-> len(chunk)]
    /\ before' = chunk
    /\ UNCHANGED <<chunk, lastReset, sumExt, notChunk>>

CallEnd ==
    /\ lastOp' = [op |-> "end", arg |-> 0, ret |-> end(chunk)]
    /\ before' = chunk
    /\ UNCHANGED <<chunk, lastReset, sumExt, notChunk>>

(***************************************************************************)
(* Bytes, representations and 256-bit words (scaled to ReprLen bytes).     *)
(***************************************************************************)
\* Number of bytes of a representation and of a word: [u8; 32] in the source.
ReprLen == 2

\* A u8 has 256 values.
ByteBase == 256

\* Words are taken modulo ByteBase^ReprLen (2^256 in the source).
WordMod == ByteBase ^ ReprLen

\* The prime moduli of the fields the codec is checked with.
Fields == {3, 13, 251, 257, 65521}

\* The sequences over S of length at most n.
SeqsUpTo(S, n) == UNION {[1..k -> S] : k \in 0..n}

RECURSIVE ToLeBytes(_, _)
\* The n low bytes of v, least significant first.
ToLeBytes(v, n) ==
    IF n = 0 THEN <<>> ELSE <<v % ByteBase>> \o ToLeBytes(v \div ByteBase, n - 1)

RECURSIVE from_le_bytes(_)
\* U256::from_le_bytes: the word whose little-endian bytes are b.
from_le_bytes(b) ==
    IF b = <<>> THEN 0 ELSE Head(b) + ByteBase * from_le_bytes(Tail(b))

RECURSIVE from_be_bytes(_)
\* The word whose big-endian bytes are b.
from_be_bytes(b) ==
    IF b = <<>> THEN 0 ELSE b[Len(b)] + ByteBase * from_be_bytes(SubSeq(b, 1, Len(b) - 1))

\* U256::to_le_bytes::<32>.
to_le_bytes(v) == ToLeBytes(v, ReprLen)

\* PrimeField::to_repr: the canonical little-endian bytes of an element,
\* an element of the field of modulus p being a number in 0..p-1.
to_repr(e) == ToLeBytes(e, ReprLen)

\* PrimeField::from_repr: the element with these bytes, or none when the bytes
\* are not the canonical representation of an element (value >= p).
from_repr(p, b) ==
    LET v == from_le_bytes(b)
    IN  IF v < p THEN [some |-> TRUE, v |-> v] ELSE [some |-> FALSE, v |-> 0]

\* F::ONE.
ONE == 1

\* Field negation.
neg(p, e) == (p - e) % p

\* U256 addition wraps at the word width.
u256_add(a, b) == (a + b) % WordMod

(***************************************************************************)
(* Codec (util.rs lines 50-75).                                            *)
(***************************************************************************)
fe_to_u256_be(f) == from_be_bytes(to_repr(f))

fe_to_u256(f) == from_le_bytes(to_repr(f))

modulus(p) == u256_add(from_le_bytes(to_repr(neg(p, ONE))), 1)

\* .unwrap() of the CtOption from_repr returns: the element, or a panic.
unwrap_fe(o) == IF o.some THEN [kind |-> "fe", v |-> o.v] ELSE [kind |-> "panic", v |-> 0]

u256_to_fe_noreduce(p, value) == unwrap_fe(from_repr(p, to_le_bytes(value)))

u256_to_fe(p, value) ==
    LET reduced == value % modulus(p)
    IN  unwrap_fe(from_repr(p, to_le_bytes(reduced)))

\* Inputs of the codec for the field of modulus p: elements and words around
\* the byte boundary, the modulus and the top of the word range.
CodecElements(p) == {e \in {0, 1, 2, 255, 256, 258, (p - 1) \div 2, p - 2, p - 1} : e >= 0 /\ e < p}

CodecWords(p) ==
    {w \in {0, 1, 255, 256, 258, p - 1, p, p + 1, 2 * p, 2 * p + 1,
            WordMod - 2, WordMod - 1} : w >= 0 /\ w < WordMod}

\* Number of values a codec run holds: the input and two conversions.
MaxTrace == 3

CodecInit ==
    /\ field \in Fields
    /\ \/ \E e \in CodecElements(field) : trace = <<[kind |-> "fe", v |-> e]>>
       \/ \E w \in CodecWords(field) : trace = <<[kind |-> "word", v |-> w]>>

FeToU256 ==
    /\ Len(trace) < MaxTrace
    /\ trace[Len(trace)].kind = "fe"
    /\ trace' = Append(trace, [kind |-> "word", v |-> fe_to_u256(trace[Len(trace)].v)])
    /\ UNCHANGED <<field, notCodec>>

U256ToFe ==
    /\ Len(trace) < MaxTrace
    /\ trace[Len(trace)].kind = "word"
    /\ trace' = Append(trace, u256_to_fe(field, trace[Len(trace)].v))
    /\ UNCHANGED <<field, notCodec>>

(***************************************************************************)
(* Calldata encoder (util.rs lines 77-91).                                 *)
(***************************************************************************)
RECURSIVE flatten(_)
\* instances.iter().flatten(): the groups' values, outer order then inner.
flatten(groups) ==
    IF groups = <<>> THEN <<>> ELSE Head(groups) \o flatten(Tail(groups))

\* .iter().rev().cloned().collect_vec()
rev(b) == [i \in 1..Len(b) |-> b[Len(b) + 1 - i]]

value_bytes_norev(value) == to_repr(value)

\* The closure of flat_map: the representation, reversed.
value_bytes(value) == rev(to_repr(value))

RECURSIVE flat_map_bytes(_)
flat_map_bytes(values) ==
    IF values = <<>> THEN <<>>
    ELSE value_bytes(Head(values)) \o flat_map_bytes(Tail(values))

encode_calldata(insts, prf) == flat_map_bytes(flatten(insts)) \o prf

\* Bounds of the encoder's inputs.
MaxGroups == 2
MaxGroupLen == 2
MaxProof == 2

InstanceValues == {1, 258}
ProofBytes == {7, 255}

CalldataInit ==
    /\ instances \in SeqsUpTo(SeqsUpTo(InstanceValues, MaxGroupLen), MaxGroups)
    /\ proof \in SeqsUpTo(ProofBytes, MaxProof)
    /\ calldata = [done |-> FALSE, out |-> <<>>]

EncodeCalldata ==
    /\ ~calldata.done
    /\ calldata' = [done |-> TRUE, out |-> encode_calldata(instances, proof)]
    /\ UNCHANGED <<instances, proof, notCalldata>>

(***************************************************************************)
(* usize arithmetic.  A build with overflow checks (debug, tests) panics   *)
(* on overflow; a build without them (release) wraps at the usize width.   *)
(* A usize value is [ok |-> TRUE, v |-> n], a panic is [ok |-> FALSE].     *)
(***************************************************************************)
\* Width of usize in bits (64 on the usual target).
UsizeBits == 24

UsizeMod == 2 ^ UsizeBits

U(n) == [ok |-> TRUE, v |-> n]

Panic == [ok |-> FALSE, v |-> 0]

RECURSIVE MulMod(_, _)
\* a * b modulo UsizeMod, without leaving the model checker's integers.
MulMod(a, b) ==
    IF b = 0 THEN 0
    ELSE LET half == MulMod(a, b \div 2)
             twice == (half + half) % UsizeMod
         IN  IF b % 2 = 1 THEN (twice + a) % UsizeMod ELSE twice

usize_add(a, b, checks) ==
    IF ~a.ok \/ ~b.ok THEN Panic
    ELSE IF a.v < UsizeMod - b.v THEN U(a.v + b.v)
    ELSE IF checks THEN Panic
    ELSE U(a.v - (UsizeMod - b.v))

usize_sub(a, b, checks) ==
    IF ~a.ok \/ ~b.ok THEN Panic
    ELSE IF a.v >= b.v THEN U(a.v - b.v)
    ELSE IF checks THEN Panic
    ELSE U(a.v + (UsizeMod - b.v))

usize_mul(a, b, checks) ==
    IF ~a.ok \/ ~b.ok THEN Panic
    ELSE IF b.v = 0 \/ a.v <= (UsizeMod - 1) \div b.v THEN U(a.v * b.v)
    ELSE IF checks THEN Panic
    ELSE U(MulMod(a.v, b.v))

(***************************************************************************)
(* Gas estimator (util.rs lines 93-102).                                   *)
(***************************************************************************)
proof_size(c, checks) ==
    usize_add(usize_mul(U(c.num_commitment), U(64), checks),
              usize_mul(usize_add(U(c.num_evaluation), U(c.num_instance), checks),
                        U(32), checks),
              checks)

intrinsic_cost == 21000

calldata_cost_floor_plus_one(ps) ==
    IF ps.ok THEN U((ps.v * 61) \div 4 + 1) ELSE Panic

\* (proof_size as f64 * 15.25).ceil() as usize.  15.25 = 61/4 and the product
\* are exact in f64 for every proof size of the model, so the result is the
\* ceiling of proof_size * 61 / 4.
calldata_cost(ps) ==
    IF ps.ok THEN U((ps.v * 61 + 3) \div 4) ELSE Panic

ec_operation_cost(c, checks) ==
    usize_add(usize_add(U(45100), usize_mul(U(c.num_pairing), U(34000), checks), checks),
              usize_mul(usize_sub(U(c.num_msm), U(2), checks), U(6350), checks),
              checks)

estimate_gas(c, checks) ==
    usize_add(usize_add(U(intrinsic_cost), calldata_cost(proof_size(c, checks)), checks),
              ec_operation_cost(c, checks),
              checks)

\* Largest value of a counter of the cost summary.
MaxCount == 3

Costs ==
    [num_commitment : 0..MaxCount, num_evaluation : 0..MaxCount,
     num_instance : 0..MaxCount, num_msm : 0..MaxCount, num_pairing : 0..MaxCount]

GasInit ==
    /\ cost \in Costs
    /\ gas = [state |-> "ready", v |-> 0]

\* estimate_gas(cost), in a build with or without overflow checks.
EstimateGas ==
    /\ gas.state = "ready"
    /\ \E checks \in BOOLEAN :
           LET r == estimate_gas(cost, checks)
           IN  gas' = IF r.ok THEN [state |-> "returned", v |-> r.v]
                      ELSE [state |-> "panicked", v |-> 0]
    /\ UNCHANGED <<cost, notGas>>

(***************************************************************************)
(* Whitespace tokenizer (util.rs lines 121-137).                           *)
(***************************************************************************)
is_ascii_whitespace_with_vt(b) == b \in {32, 9, 10, 11, 12, 13}

\* u8::is_ascii_whitespace: space, tab, line feed, form feed, carriage return.
is_ascii_whitespace(b) == b \in {32, 9, 10, 12, 13}

None == [some |-> FALSE, v |-> 0]

Some(x) == [some |-> TRUE, v |-> x]

\* The state of the scan before the loop: idx counts the bytes consumed.
scan_start == [idx |-> 0, start |-> None, split |-> <<>>]

\* bytes[a..b] of the source, indices from 0, b excluded.
Slice(bs, a, b) == SubSeq(bs, a + 1, b)

scan_byte_keep_start(bs, st) ==
    LET idx == st.idx
        byte == bs[idx + 1]
    IN  IF is_ascii_whitespace(byte)
        THEN IF st.start.some
             THEN [idx |-> idx + 1, start |-> st.start,
                   split |-> Append(st.split, Slice(bs, st.start.v, idx))]
             ELSE [st EXCEPT !.idx = idx + 1]
        ELSE IF ~st.start.some
             THEN [st EXCEPT !.idx = idx + 1, !.start = Some(idx)]
             ELSE [st EXCEPT !.idx = idx + 1]

\* One iteration of the loop, on the byte at index st.idx.
scan_byte(bs, st) ==
    LET idx == st.idx
        byte == bs[idx + 1]
    IN  IF is_ascii_whitespace(byte)
        THEN IF st.start.some
             THEN [idx |-> idx + 1, start |-> None,
                   split |-> Append(st.split, Slice(bs, st.start.v, idx))]
             ELSE [st EXCEPT !.idx = idx + 1]
        ELSE IF ~st.start.some
             THEN [st EXCEPT !.idx = idx + 1, !.start = Some(idx)]
             ELSE [st EXCEPT !.idx = idx + 1]

\* After the loop: the token still open is pushed.
scan_end(bs, st) ==
    IF st.start.some
    THEN [st EXCEPT !.split = Append(st.split, Slice(bs, st.start.v, Len(bs)))]
    ELSE st

RECURSIVE scan_all(_, _)
scan_all(bs, st) ==
    IF st.idx = Len(bs) THEN scan_end(bs, st).split ELSE scan_all(bs, scan_byte(bs, st))

split_by_ascii_whitespace(bs) == scan_all(bs, scan_start)

\* Longest input of the tokenizer, beside the two inputs of the source's tests.
MaxBytes == 3

SplitAlphabet == {32, 9, 10, 13, 12, 11, 1, 65}

\* b" \x01 \x02   \x03"
Test1Bytes == <<32, 1, 32, 2, 32, 32, 32, 3>>

\* b"123456789abc"
Test2Bytes == <<49, 50, 51, 52, 53, 54, 55, 56, 57, 97, 98, 99>>

SplitInit ==
    /\ bytes \in SeqsUpTo(SplitAlphabet, MaxBytes) \cup {Test1Bytes, Test2Bytes}
    /\ scan = scan_start
    /\ spc = "loop"

ScanByte ==
    /\ spc = "loop"
    /\ scan.idx < Len(bytes)
    /\ scan' = scan_byte(bytes, scan)
    /\ UNCHANGED <<bytes, spc, notSplit>>

ScanEnd ==
    /\ spc = "loop"
    /\ scan.idx = Len(bytes)
    /\ scan' = scan_end(bytes, scan)
    /\ spc' = "done"
    /\ UNCHANGED <<bytes, notSplit>>

(***************************************************************************)
(* Compiler pipeline (util.rs lines 104-119).                              *)
(*                                                                         *)
(* The parent runs compile_yul: spawn, write_all to the child's stdin,     *)
(* drop of the stdin handle, wait_with_output, parsing.  The child is solc *)
(* behind two pipes of bounded capacity.  Its output is a parameter of the *)
(* run; it reads readFirst bytes of its input (or to end of input) before  *)
(* it writes its output, then reads the rest of its input and exits at end *)
(* of input.  solc itself reads its whole input first.  The child may also *)
(* exit early at any moment.                                               *)
(***************************************************************************)
\* Value of a hexadecimal digit, -1 for any other byte (hex crate's val).
hex_val(c) ==
    IF c \in 48..57 THEN c - 48
    ELSE IF c \in 97..102 THEN c - 87
    ELSE IF c \in 65..70 THEN c - 55
    ELSE -1

\* hex::decode: an error for an odd length or a byte that is no digit.
hex_decode(data) ==
    IF Len(data) % 2 # 0 THEN [ok |-> FALSE, out |-> <<>>]
    ELSE IF \E k \in 1..Len(data) : hex_val(data[k]) < 0 THEN [ok |-> FALSE, out |-> <<>>]
    ELSE [ok |-> TRUE,
          out |-> [i \in 1..(Len(data) \div 2) |->
                      16 * hex_val(data[2 * i - 1]) + hex_val(data[2 * i])]]

Failed(why) == [state |-> "failed", out |-> <<>>, why |-> why]

Returned(out) == [state |-> "returned", out |-> out, why |-> "none"]

parse_output_first(output) ==
    LET tokens == split_by_ascii_whitespace(output)
    IN  IF tokens = <<>> THEN Failed("no_token")
        ELSE LET binary == tokens[1]
                 decoded == hex_decode(binary)
             IN  IF binary = <<>> THEN Failed("empty")
                 ELSE IF decoded.ok THEN Returned(decoded.out)
                 ELSE Failed("hex")

\* Lines 116-118: the last token, asserted non-empty, decoded from hexadecimal;
\* each unwrap and the assert panic.
parse_output(output) ==
    LET tokens == split_by_ascii_whitespace(output)
    IN  IF tokens = <<>> THEN Failed("no_token")
        ELSE LET binary == tokens[Len(tokens)]
                 decoded == hex_decode(binary)
             IN  IF binary = <<>> THEN Failed("empty")
                 ELSE IF decoded.ok THEN Returned(decoded.out)
                 ELSE Failed("hex")

\* Longest source text, in bytes.
MaxSrc == 2

\* Capacity of the pipe to the child's stdin and of the pipe from its stdout.
StdinCap == 1
StdoutCap == 1

\* Longest compiler output taken from every sequence over OutAlphabet.
MaxOut == 2

\* Line feed, '0', 'a', 'F' and 'g'.
OutAlphabet == {10, 48, 97, 70, 103}

\* Longer outputs: "g\n0a", "0a\ng", "0a\nF0\n", "0aF", "B:\n60\n".
SampleOutputs ==
    {<<103, 10, 48, 97>>, <<48, 97, 10, 103>>, <<48, 97, 10, 70, 48, 10>>,
     <<48, 97, 70>>, <<66, 58, 10, 54, 48, 10>>}

Outputs == SeqsUpTo(OutAlphabet, MaxOut) \cup SampleOutputs

CompileInit ==
    /\ pc = "spawn"
    /\ srcLeft \in 0..MaxSrc
    /\ stdinBuf = 0
    /\ stdinOpen = FALSE
    /\ childPc = "idle"
    /\ readFirst \in 0..MaxSrc
    /\ outLeft \in Outputs
    /\ stdoutBuf = <<>>
    /\ captured = <<>>
    /\ result = [state |-> "running", out |-> <<>>, why |-> "none"]

\* Lines 106-113: the process starts with both pipes open.
SpawnOk ==
    /\ pc = "spawn"
    /\ pc' = "write"
    /\ childPc' = "run"
    /\ stdinOpen' = TRUE
    /\ UNCHANGED <<srcLeft, stdinBuf, readFirst, outLeft, stdoutBuf, captured, result, notCompile>>

\* Lines 112-113: spawn fails and its unwrap panics.
SpawnFail ==
    /\ pc = "spawn"
    /\ pc' = "done"
    /\ result' = Failed("spawn")
    /\ UNCHANGED <<srcLeft, stdinBuf, stdinOpen, childPc, readFirst, outLeft, stdoutBuf,
                   captured, notCompile>>

\* Line 114, write_all: one more byte goes into the pipe when it has room.
WriteByte ==
    /\ pc = "write"
    /\ srcLeft > 0
    /\ childPc = "run"
    /\ stdinBuf < StdinCap
    /\ srcLeft' = srcLeft - 1
    /\ stdinBuf' = stdinBuf + 1
    /\ UNCHANGED <<pc, stdinOpen, childPc, readFirst, outLeft, stdoutBuf, captured, result,
                   notCompile>>

\* Line 114: the child has gone, the write fails and its unwrap panics.
WriteFail ==
    /\ pc = "write"
    /\ srcLeft > 0
    /\ childPc = "exited"
    /\ pc' = "done"
    /\ stdinOpen' = FALSE
    /\ result' = Failed("write")
    /\ UNCHANGED <<srcLeft, stdinBuf, childPc, readFirst, outLeft, stdoutBuf, captured,
                   notCompile>>

\* Line 114: everything is written; the stdin handle, a temporary, is dropped.
WriteDone ==
    /\ pc = "write"
    /\ srcLeft = 0
    /\ pc' = "wait"
    /\ stdinOpen' = FALSE
    /\ UNCHANGED <<srcLeft, stdinBuf, childPc, readFirst, outLeft, stdoutBuf, captured,
                   result, notCompile>>

\* Line 115, wait_with_output: reads the child's stdout to its end.
ReadOutput ==
    /\ pc = "wait"
    /\ stdoutBuf # <<>>
    /\ captured' = Append(captured, Head(stdoutBuf))
    /\ stdoutBuf' = Tail(stdoutBuf)
    /\ UNCHANGED <<pc, srcLeft, stdinBuf, stdinOpen, childPc, readFirst, outLeft, result,
                   notCompile>>

\* Line 115: end of the child's output and the child has terminated.
WaitDone ==
    /\ pc = "wait"
    /\ stdoutBuf = <<>>
    /\ childPc = "exited"
    /\ pc' = "parse"
    /\ UNCHANGED <<srcLeft, stdinBuf, stdinOpen, childPc, readFirst, outLeft, stdoutBuf,
                   captured, result, notCompile>>

\* Line 115: reading the output or waiting for the child fails; the unwrap panics.
WaitFail ==
    /\ pc = "wait"
    /\ pc' = "done"
    /\ result' = Failed("wait")
    /\ UNCHANGED <<srcLeft, stdinBuf, stdinOpen, childPc, readFirst, outLeft, stdoutBuf,
                   captured, notCompile>>

\* Lines 116-118.
Parse ==
    /\ pc = "parse"
    /\ pc' = "done"
    /\ result' = parse_output(captured)
    /\ UNCHANGED <<srcLeft, stdinBuf, stdinOpen, childPc, readFirst, outLeft, stdoutBuf,
                   captured, notCompile>>

\* The child's input is at its end: the parent closed the pipe and it is empty.
ChildInputEof == ~stdinOpen /\ stdinBuf = 0

\* The child is at a write of its output: it has read what it reads first.
ChildAtWrite == childPc = "run" /\ outLeft # <<>> /\ (readFirst = 0 \/ ChildInputEof)

ChildRead ==
    /\ childPc = "run"
    /\ ~ChildAtWrite
    /\ stdinBuf > 0
    /\ stdinBuf' = stdinBuf - 1
    /\ readFirst' = IF readFirst > 0 THEN readFirst - 1 ELSE 0
    /\ UNCHANGED <<pc, srcLeft, stdinOpen, childPc, outLeft, stdoutBuf, captured, result,
                   notCompile>>

ChildWrite ==
    /\ ChildAtWrite
    /\ Len(stdoutBuf) < StdoutCap
    /\ stdoutBuf' = Append(stdoutBuf, Head(outLeft))
    /\ outLeft' = Tail(outLeft)
    /\ UNCHANGED <<pc, srcLeft, stdinBuf, stdinOpen, childPc, readFirst, captured, result,
                   notCompile>>

ChildExit ==
    /\ childPc = "run"
    /\ ChildInputEof
    /\ outLeft = <<>>
    /\ childPc' = "exited"
    /\ UNCHANGED <<pc, srcLeft, stdinBuf, stdinOpen, readFirst, outLeft, stdoutBuf, captured,
                   result, notCompile>>

\* The child exits early: what it had not written is lost, what it had not read is dropped.
ChildAbort ==
    /\ childPc = "run"
    /\ ~(ChildInputEof /\ outLeft = <<>>)
    /\ childPc' = "exited"
    /\ outLeft' = <<>>
    /\ stdinBuf' = 0
    /\ UNCHANGED <<pc, srcLeft, stdinOpen, readFirst, stdoutBuf, captured, result, notCompile>>

\* The parent is blocked in write_all: the pipe to the child is full.
ParentBlockedWriting == pc = "write" /\ srcLeft > 0 /\ childPc = "run" /\ stdinBuf = StdinCap

\* The child is blocked in a write of its output: the pipe to the parent is full.
ChildBlockedWriting == ChildAtWrite /\ Len(stdoutBuf) = StdoutCap

(***************************************************************************)
(* Specifications.                                                         *)
(***************************************************************************)
Init == ChunkInit /\ CodecIdle /\ CalldataIdle /\ GasIdle /\ SplitIdle /\ CompileIdle

Next == Extend \/ Reset \/ CallPtr \/ CallLen \/ CallEnd

\* The MemoryChunk object under every sequence of its methods.
Spec == Init /\ [][Next]_vars

InitCodec == CodecInit /\ ChunkIdle /\ CalldataIdle /\ GasIdle /\ SplitIdle /\ CompileIdle

NextCodec == FeToU256 \/ U256ToFe

SpecCodec == InitCodec /\ [][NextCodec]_vars

InitCalldata == CalldataInit /\ ChunkIdle /\ CodecIdle /\ GasIdle /\ SplitIdle /\ CompileIdle

NextCalldata == EncodeCalldata

SpecCalldata == InitCalldata /\ [][NextCalldata]_vars

InitGas == GasInit /\ ChunkIdle /\ CodecIdle /\ CalldataIdle /\ SplitIdle /\ CompileIdle

NextGas == EstimateGas

SpecGas == InitGas /\ [][NextGas]_vars

InitSplit == SplitInit /\ ChunkIdle /\ CodecIdle /\ CalldataIdle /\ GasIdle /\ CompileIdle

NextSplit == ScanByte \/ ScanEnd

SpecSplit == InitSplit /\ [][NextSplit]_vars

InitCompile == CompileInit /\ ChunkIdle /\ CodecIdle /\ CalldataIdle /\ GasIdle /\ SplitIdle

NextCompile ==
    \/ SpawnOk \/ SpawnFail
    \/ WriteByte \/ WriteFail \/ WriteDone
    \/ ReadOutput \/ WaitDone \/ WaitFail
    \/ Parse
    \/ ChildRead \/ ChildWrite \/ ChildExit \/ ChildAbort

SpecCompile == InitCompile /\ [][NextCompile]_vars

(***************************************************************************)
(* Properties.                                                             *)
(***************************************************************************)
\* C1: converting a field element to a word and back gives the element
\* again, and the conversion back never panics on from_repr.
RoundTrip ==
    \A i \in 1..Len(trace) :
        (trace[i].kind = "fe" /\ i + 2 <= Len(trace)) => trace[i + 2] = trace[i]

\* A multi-byte element has gone to a word and back.
RoundTripWitness ==
    /\ Len(trace) = 3
    /\ trace[1].kind = "fe"
    /\ trace[1].v >= ByteBase
    /\ trace[3].kind = "fe"

\* C2: converting a word to a field element never panics, converting it back
\* gives the word modulo modulus(), and every word fe_to_u256 returns is
\* below modulus().
Reduction ==
    \A i \in 1..Len(trace) :
        /\ (trace[i].kind = "word" /\ i + 1 <= Len(trace)) => trace[i + 1].kind = "fe"
        /\ (trace[i].kind = "word" /\ i + 2 <= Len(trace)) =>
               trace[i + 2] = [kind |-> "word", v |-> trace[i].v % modulus(field)]
        /\ (trace[i].kind = "word" /\ i > 1) => trace[i].v < modulus(field)

\* The largest word, which is at least the modulus, has gone to the field and back.
ReductionWitness ==
    /\ Len(trace) = 3
    /\ trace[1] = [kind |-> "word", v |-> WordMod - 1]
    /\ trace[1].v >= modulus(field)
    /\ trace[3].kind = "word"

\* Number of values in all the groups.
RECURSIVE TotalCount(_)
TotalCount(groups) ==
    IF groups = <<>> THEN 0 ELSE Len(Head(groups)) + TotalCount(Tail(groups))

\* Number of values in the groups before group g.
PrefixCount(groups, g) == TotalCount(SubSeq(groups, 1, g - 1))

\* Byte j (from 1, most significant first) of the ReprLen-byte big-endian encoding of v.
BEByte(v, j) == (v \div (ByteBase ^ (ReprLen - j))) % ByteBase

\* C3: the calldata is each instance value's big-endian encoding, in outer
\* then inner order, followed by the proof bytes as they are; nothing else,
\* so its length is ReprLen * (number of values) + Len(proof); the single
\* element 1 encodes as zero bytes followed by 1.
CalldataLayout ==
    calldata.done =>
        LET out == calldata.out
            n == TotalCount(instances)
        IN  /\ Len(out) = ReprLen * n + Len(proof)
            /\ \A g \in 1..Len(instances) : \A i \in 1..Len(instances[g]) :
                   \A j \in 1..ReprLen :
                       out[ReprLen * (PrefixCount(instances, g) + i - 1) + j]
                           = BEByte(instances[g][i], j)
            /\ \A k \in 1..Len(proof) : out[ReprLen * n + k] = proof[k]
            /\ instances = << <<1>> >> =>
                   SubSeq(out, 1, ReprLen)
                       = [j \in 1..ReprLen |-> IF j = ReprLen THEN 1 ELSE 0]

\* Two groups, a value whose bytes differ, and a proof have been encoded.
CalldataWitness ==
    /\ calldata.done
    /\ Len(instances) = 2
    /\ instances[1] = <<1, 258>>
    /\ Len(instances[2]) > 0
    /\ Len(proof) = 2

\* C6: the tracker's offset is the argument of the latest reset (or of new),
\* its length the sum of the extends since, end() their sum; extend keeps
\* the offset, reset zeroes the length, and the getters change nothing.
MemoryChunkInv ==
    /\ ptr(chunk) = lastReset
    /\ len(chunk) = sumExt
    /\ end(chunk) = lastReset + sumExt
    /\ lastOp.op = "new" => (chunk = [ptr |-> lastOp.arg, len |-> 0])
    /\ lastOp.op = "extend" =>
           (chunk.ptr = before.ptr /\ chunk.len = before.len + lastOp.arg)
    /\ lastOp.op = "reset" => (chunk.ptr = lastOp.arg /\ chunk.len = 0)
    /\ lastOp.op \in {"ptr", "len", "end"} => chunk = before
    /\ lastOp.op = "ptr" => lastOp.ret = lastReset
    /\ lastOp.op = "len" => lastOp.ret = sumExt
    /\ lastOp.op = "end" => lastOp.ret = lastReset + sumExt

\* reset(10) has just been called on the region new(100), extend(50) made.
MemoryChunkWitness ==
    /\ lastOp = [op |-> "reset", arg |-> 10, ret |-> 0]
    /\ before = [ptr |-> 100, len |-> 50]
    /\ end(chunk) = 10

\* The cost summary of the worked example.
GasExampleCost ==
    [num_commitment |-> 2, num_evaluation |-> 3, num_instance |-> 1,
     num_msm |-> 2, num_pairing |-> 1]

\* C4, as amended: for the example cost summary the proof size is
\* 64 * 2 + 32 * (3 + 1) = 256, the calldata cost is ceil(256 * 15.25) = 3904,
\* the curve operation cost is 79100, and estimate_gas returns
\* 21000 + 3904 + 79100 = 104004.
GasExample ==
    (gas.state # "ready" /\ cost = GasExampleCost) =>
        /\ proof_size(cost, TRUE) = U(256)
        /\ calldata_cost(proof_size(cost, TRUE)) = U(3904)
        /\ ec_operation_cost(cost, TRUE) = U(79100)
        /\ gas = [state |-> "returned", v |-> 104004]

\* estimate_gas has returned for the example cost summary.
GasExampleWitness == gas.state = "returned" /\ cost = GasExampleCost

\* C4, as claimed: the proof size of the example is 224, its calldata cost
\* 3417, its curve operation cost 79100 and the estimate 103517.
GasExampleAsClaimed ==
    (gas.state # "ready" /\ cost = GasExampleCost) =>
        /\ proof_size(cost, TRUE) = U(224)
        /\ calldata_cost(proof_size(cost, TRUE)) = U(3417)
        /\ ec_operation_cost(cost, TRUE) = U(79100)
        /\ gas = [state |-> "returned", v |-> 103517]

\* The value of the formula over the integers, numMsm below 2 included.
GasFormula(c) ==
    21000 + ((64 * c.num_commitment + 32 * (c.num_evaluation + c.num_instance)) * 61 + 3) \div 4
        + 45100 + 34000 * c.num_pairing + 6350 * (c.num_msm - 2)

\* C5: called with numMsm below 2, estimate_gas returns the value of the
\* formula, which is strictly below what it returns for numMsm = 2 and the
\* other counters equal.
GasBelowBaseline ==
    (gas.state # "ready" /\ cost.num_msm < 2) =>
        /\ gas.state = "returned"
        /\ gas.v = GasFormula(cost)
        /\ gas.v < estimate_gas([cost EXCEPT !.num_msm = 2], TRUE).v

\* The maximal runs of consecutive non-whitespace bytes of bs, as pairs of
\* the positions (from 1) of their first and last byte.
Runs(bs) ==
    {r \in (1..Len(bs)) \X (1..Len(bs)) :
        /\ r[1] <= r[2]
        /\ \A k \in r[1]..r[2] : ~is_ascii_whitespace(bs[k])
        /\ r[1] = 1 \/ is_ascii_whitespace(bs[r[1] - 1])
        /\ r[2] = Len(bs) \/ is_ascii_whitespace(bs[r[2] + 1])}

\* The i-th run of bs in input order.
RunAt(bs, i) ==
    CHOOSE r \in Runs(bs) : Cardinality({q \in Runs(bs) : q[1] < r[1]}) = i - 1

\* C7: the tokens returned are exactly the maximal runs of non-whitespace
\* bytes, in input order; each is non-empty and holds no whitespace byte; an
\* input without whitespace is one token, an empty or all-whitespace input
\* none; the inputs of the two tests give the tokens the tests expect.
TokenizerResult ==
    spc = "done" =>
        LET split == scan.split
        IN  /\ Len(split) = Cardinality(Runs(bytes))
            /\ \A i \in 1..Len(split) :
                   /\ split[i] = SubSeq(bytes, RunAt(bytes, i)[1], RunAt(bytes, i)[2])
                   /\ split[i] # <<>>
                   /\ \A k \in 1..Len(split[i]) : ~is_ascii_whitespace(split[i][k])
            /\ (bytes # <<>> /\ \A k \in 1..Len(bytes) : ~is_ascii_whitespace(bytes[k]))
                   => split = <<bytes>>
            /\ (\A k \in 1..Len(bytes) : is_ascii_whitespace(bytes[k])) => split = <<>>
            /\ bytes = Test1Bytes => split = << <<1>>, <<2>>, <<3>> >>
            /\ bytes = Test2Bytes => split = <<Test2Bytes>>
            /\ split = split_by_ascii_whitespace(bytes)

\* The scan of the first test's input, with leading and repeated whitespace, has ended.
TokenizerWitness == spc = "done" /\ bytes = Test1Bytes /\ Len(scan.split) = 3

RECURSIVE Concat(_)
\* The tokens one after the other.
Concat(tokens) == IF tokens = <<>> THEN <<>> ELSE Head(tokens) \o Concat(Tail(tokens))

\* The separators of the tokenizer: space, tab, line feed, form feed, carriage return.
Separators == {32, 9, 10, 12, 13}

NotSeparator(b) == b \notin Separators

\* C8, as amended: each of the five bytes space, tab, newline, carriage
\* return and form feed is a separator and never appears in a token; every
\* other byte, vertical tab (0x0B) included, is token content.
WhitespaceSet ==
    spc = "done" =>
        /\ \A i \in 1..Len(scan.split) : \A k \in 1..Len(scan.split[i]) :
               scan.split[i][k] \notin Separators
        /\ Concat(scan.split) = SelectSeq(bytes, NotSeparator)

\* A vertical tab next to a separator has been scanned, and is in a token.
WhitespaceSetWitness ==
    /\ spc = "done"
    /\ \E k \in 1..Len(bytes) : bytes[k] = 11
    /\ \E k \in 1..Len(bytes) : bytes[k] \in Separators
    /\ \E i \in 1..Len(scan.split) : \E k \in 1..Len(scan.split[i]) : scan.split[i][k] = 11

NotOfTheSix(b) == b \notin {32, 9, 10, 13, 12, 11}

\* C8, as claimed: the six bytes space, tab, newline, carriage return, form
\* feed and vertical tab are separators and never appear in a token; every
\* other byte is token content.
WhitespaceSetAsClaimed ==
    spc = "done" =>
        /\ \A i \in 1..Len(scan.split) : \A k \in 1..Len(scan.split[i]) :
               NotOfTheSix(scan.split[i][k])
        /\ Concat(scan.split) = SelectSeq(bytes, NotOfTheSix)

\* The hexadecimal digits in the order of their values.
HexLower == <<48, 49, 50, 51, 52, 53, 54, 55, 56, 57, 97, 98, 99, 100, 101, 102>>
HexUpper == <<48, 49, 50, 51, 52, 53, 54, 55, 56, 57, 65, 66, 67, 68, 69, 70>>

IsHexDigit(c) == \E d \in 1..16 : HexLower[d] = c \/ HexUpper[d] = c

DigitValue(c) == (CHOOSE d \in 1..16 : HexLower[d] = c \/ HexUpper[d] = c) - 1

\* A string of an even number of hexadecimal digits.
IsHexString(t) == Len(t) % 2 = 0 /\ \A k \in 1..Len(t) : IsHexDigit(t[k])

\* The bytes a hexadecimal string stands for.
HexBytes(t) ==
    [i \in 1..(Len(t) \div 2) |-> 16 * DigitValue(t[2 * i - 1]) + DigitValue(t[2 * i])]

\* The last whitespace-delimited token of the output.
LastToken(output) ==
    split_by_ascii_whitespace(output)[Len(split_by_ascii_whitespace(output))]

\* C9, as amended: a call ends failed, with no result, or returned; it fails
\* exactly when the spawn fails, the write fails, waiting for the process and
\* its output fails, the captured output has no token, or its last token is
\* not valid hexadecimal; otherwise it returns the decoding of the last
\* token, which is never empty.
CompileOutcome ==
    pc = "done" =>
        LET tokens == split_by_ascii_whitespace(captured)
        IN  /\ result.state \in {"failed", "returned"}
            /\ result.state = "failed" <=>
                   \/ result.why \in {"spawn", "write", "wait"}
                   \/ tokens = <<>>
                   \/ ~IsHexString(LastToken(captured))
            /\ result.state = "failed" => result.out = <<>>
            /\ result.state = "returned" =>
                   /\ result.out = HexBytes(LastToken(captured))
                   /\ result.out # <<>>

\* A call has returned the decoding of the last of several tokens.
CompileOutcomeWitness ==
    /\ pc = "done"
    /\ result.state = "returned"
    /\ Len(split_by_ascii_whitespace(captured)) >= 2

\* C9, as claimed: a call fails exactly when the spawn fails, the write
\* fails, the captured output has no token, or its last token is not valid
\* hexadecimal; otherwise it returns the decoding of the last token.
CompileOutcomeAsClaimed ==
    pc = "done" =>
        LET tokens == split_by_ascii_whitespace(captured)
        IN  /\ result.state \in {"failed", "returned"}
            /\ result.state = "failed" <=>
                   \/ result.why \in {"spawn", "write"}
                   \/ tokens = <<>>
                   \/ ~IsHexString(LastToken(captured))
            /\ result.state = "failed" => result.out = <<>>
            /\ result.state = "returned" =>
                   /\ result.out = HexBytes(LastToken(captured))
                   /\ result.out # <<>>

\* C10: in no reachable state is the parent blocked writing the source while
\* the child is blocked writing its output.
NoPipeDeadlock == ~(ParentBlockedWriting /\ ChildBlockedWriting)

====
